---- MODULE Spec2Model ----
(***************************************************************************)
(* Model of .github/workflows/scripts/create-jira-ticket-from-dependabot   *)
(* .ex.cjs: one run of the script is the async main function, cut at its   *)
(* awaits.  Every outbound request is issued by one step and completed by  *)
(* the next; what the remote services answer is an input of the step.      *)
(***************************************************************************)
EXTENDS Integers, Sequences, FiniteSets, TLC

VARIABLES
    env,        \* process.env as destructured at lines 12-48
    tickets,    \* the tracker: keys of the issues whose text holds the PR URL, oldest first
    pc,         \* position of main: the await it is suspended at, or "start" / "done"
    reqs,       \* the outbound requests of this run, in order, each with its outcome
    mode,       \* what pickMode() returned at line 368
    existing,   \* main's variable of line 387
    completion, \* what the completion request was answered with (res of line 192)
    gen,        \* main's variable of line 403
    fields,     \* the body of the POST /issue request (lines 435-448)
    outputs,    \* lines appended to the GITHUB_OUTPUT file by setOutput
    console,    \* the lines main and setOutput wrote to the console, as tags
    exitCode,   \* process exit status; -1 while the run is going
    runs,       \* runs started so far
    warnedRuns, \* earlier runs that logged the search warning of line 391
    input,      \* the arguments of a function of the script exercised on its own
    result      \* what that function returned

vars == <<env, tickets, pc, reqs, mode, existing, completion, gen, fields, outputs, console,
          exitCode, runs, warnedRuns, input, result>>

-----------------------------------------------------------------------------
(* Bounds of the model *)

MaxRuns == 2

\* pieces a title is put together from, at most
MaxTitleParts == 2

\* lines of a completion, at most
MaxLines == 3

\* lines of a pull-request body, at most
MaxBodyLines == 3

-----------------------------------------------------------------------------
(* JavaScript strings are sequences of characters (long constant pieces are *)
(* one token); an environment variable is either unset or a string.        *)

Undef == [def |-> FALSE, s |-> <<>>]
Str(t) == [def |-> TRUE, s |-> t]

\* JS truthiness of an env value: undefined and '' are falsy
Truthy(v) == v.def /\ v.s # <<>>

\* (v || '')
OrEmpty(v) == IF Truthy(v) THEN v.s ELSE <<>>

Upper == <<"A","B","C","D","E","I","N","O","P","R","S","T","X","Y">>
Lower == <<"a","b","c","d","e","i","n","o","p","r","s","t","x","y">>

\* String.prototype.toLowerCase, one character
LowerChar(c) ==
    IF \E i \in 1..Len(Upper) : Upper[i] = c
    THEN Lower[CHOOSE i \in 1..Len(Upper) : Upper[i] = c]
    ELSE c

ToLowerCase(s) == [i \in 1..Len(s) |-> LowerChar(s[i])]

IsSpace(c) == c \in {" ", "\t", "\n"}

RECURSIVE TrimStart(_)
TrimStart(s) == IF s # <<>> /\ IsSpace(Head(s)) THEN TrimStart(Tail(s)) ELSE s

RECURSIVE TrimEnd(_)
TrimEnd(s) ==
    IF s # <<>> /\ IsSpace(s[Len(s)]) THEN TrimEnd(SubSeq(s, 1, Len(s) - 1)) ELSE s

\* String.prototype.trim
Trim(s) == TrimEnd(TrimStart(s))

StartsWith(s, p) == Len(s) >= Len(p) /\ SubSeq(s, 1, Len(p)) = p

Last(q) == q[Len(q)]

-----------------------------------------------------------------------------
(* Configuration (lines 12-53) *)

\* line 50: (RAW_PREFERRED_MODEL && RAW_PREFERRED_MODEL.trim()) || 'openai/gpt-5-nano'
PREFERRED_MODEL(e) ==
    IF Truthy(e.PREFERRED_MODEL) /\ Trim(e.PREFERRED_MODEL.s) # <<>>
    THEN Trim(e.PREFERRED_MODEL.s)
    ELSE <<"openai/gpt-5-nano">>

\* line 51: GH_MODELS_TOKEN || GITHUB_TOKEN
MODELS_TOKEN(e) == IF Truthy(e.GH_MODELS_TOKEN) THEN e.GH_MODELS_TOKEN ELSE e.GITHUB_TOKEN

\* line 46: USE_LLM = 'true' (the default applies to an unset variable only)
USE_LLM(e) == IF e.USE_LLM.def THEN e.USE_LLM.s ELSE <<"true">>

\* line 53
REQ_TIMEOUT == 20000

-----------------------------------------------------------------------------
(* Endpoint resolver (lines 83-109) *)

\* pickMode with the automatic rules swapped: site mode is tried before ex mode
PickModeSiteFirst(e) ==
    LET m == ToLowerCase(OrEmpty(e.JIRA_MODE)) IN
    IF m = <<"s","i","t","e">> THEN "site"
    ELSE IF m = <<"e","x">> THEN "ex"
    ELSE IF Truthy(e.JIRA_API_BASE) THEN "site"
    ELSE IF Truthy(e.JIRA_EX_BASE) /\ Truthy(e.JIRA_CLOUD_ID) THEN "ex"
    ELSE "throw"

\* pickMode: "throw" stands for the Error of line 89
pickMode(e) ==
    LET m == ToLowerCase(OrEmpty(e.JIRA_MODE)) IN
    IF m = <<"s","i","t","e">> THEN "site"
    ELSE IF m = <<"e","x">> THEN "ex"
    ELSE IF Truthy(e.JIRA_EX_BASE) /\ Truthy(e.JIRA_CLOUD_ID) THEN "ex"
    ELSE IF Truthy(e.JIRA_API_BASE) THEN "site"
    ELSE "throw"

\* new URL(v) accepts an absolute URL: a scheme token followed by a host
UrlParses(v) == v.def /\ Len(v.s) >= 2 /\ v.s[1] = "https://"

\* encodeURIComponent(JIRA_CLOUD_ID): an unset variable stringifies to "undefined"
CloudIdSegment(e) == IF e.JIRA_CLOUD_ID.def THEN e.JIRA_CLOUD_ID.s ELSE <<"undefined">>

\* jiraHostAndPathBuilder: the descriptor, or ok = FALSE when pickMode or new URL throws
jiraHostAndPathBuilder(e) ==
    LET m == pickMode(e) IN
    IF m = "throw" THEN [ok |-> FALSE, mode |-> m, host |-> "", prefix |-> <<>>]
    ELSE IF m = "ex"
    THEN IF UrlParses(e.JIRA_EX_BASE)
         THEN [ok |-> TRUE, mode |-> m, host |-> e.JIRA_EX_BASE.s[2],
               prefix |-> <<"/ex/jira/">> \o CloudIdSegment(e) \o <<"/rest/api/3">>]
         ELSE [ok |-> FALSE, mode |-> m, host |-> "", prefix |-> <<>>]
    ELSE IF UrlParses(e.JIRA_API_BASE)
         THEN [ok |-> TRUE, mode |-> m, host |-> e.JIRA_API_BASE.s[2],
               prefix |-> <<"/rest/api/3">>]
         ELSE [ok |-> FALSE, mode |-> m, host |-> "", prefix |-> <<>>]

\* the path function of the descriptor: a leading slash is added when missing
JiraPath(b, p) == b.prefix \o (IF p # <<>> /\ Head(p) = "/" THEN p ELSE <<"/">> \o p)

\* buildBrowseUrl (lines 352-356): one trailing slash of the base is dropped
buildBrowseUrl(e, issueKey) ==
    LET raw == OrEmpty(e.JIRA_BROWSE_BASE)
        base == IF raw # <<>> /\ raw[Len(raw)] = "/" THEN SubSeq(raw, 1, Len(raw) - 1) ELSE raw
    IN  IF base = <<>>
        THEN <<"https://", "atlassian.net", "/browse/", issueKey>>
        ELSE base \o <<"/browse/", issueKey>>

\* lines 313-314: quote and backslash are escaped, then the JQL is built
RECURSIVE EscapeJql(_)
EscapeJql(s) ==
    IF s = <<>> THEN <<>>
    ELSE (IF Head(s) \in {"\"", "\\"} THEN <<"\\", Head(s)>> ELSE <<Head(s)>>) \o EscapeJql(Tail(s))

Jql(e, text) ==
    <<"project = ">> \o OrEmpty(e.JIRA_PROJECT_KEY) \o <<" AND text ~ \"">>
        \o EscapeJql(text) \o <<"\" ORDER BY created DESC">>

-----------------------------------------------------------------------------
(* Upgrade extractor (lines 111-134).  Pull-request text is a sequence of   *)
(* tokens: a maximal run of package or version characters, one whitespace  *)
(* character, or one other character.                                      *)

WordToks == {"Bump", "bump", "BUMP", "Updates", "updates", "from", "to"}
NameToks == {"lodash", "axios", "@babel/core"}
VerToks == {"4.17.20", "4.17.21", "1.0.0", "1.1.0"}

\* [@\w\/.-]+
IsPkgTok(t) == t \in NameToks \cup VerToks \cup WordToks
\* [0-9A-Za-z.+-]+
IsVerTok(t) == t \in VerToks \cup WordToks \cup {"lodash", "axios"}

LowerWord(t) ==
    CASE t \in {"Bump", "BUMP"} -> "bump"
      [] t = "Updates" -> "updates"
      [] OTHER -> LowerChar(t)

\* the backtick character
BackTick == "<backtick>"

RECURSIVE SkipSpace(_, _)
SkipSpace(toks, i) ==
    IF i <= Len(toks) /\ IsSpace(toks[i]) THEN SkipSpace(toks, i + 1) ELSE i

\* The three patterns, element by element: "ws" is \s+, "pkg" the captured
\* name, "ver" a captured version, "tick" a backtick, a word itself (any case)
BumpPattern == <<"bump", "ws", "pkg", "ws", "from", "ws", "ver", "ws", "to", "ws", "ver">>
BulletPattern == <<"pkg", "ws", "from", "ws", "ver", "ws", "to", "ws", "ver">>
UpdatesPattern == <<"updates", "ws", "tick", "pkg", "tick", "ws", "from", "ws", "ver", "ws", "to", "ws", "ver">>

\* whether token t can stand for pattern element el
Accepts(el, t) ==
    CASE el = "ws" -> IsSpace(t)
      [] el = "pkg" -> IsPkgTok(t)
      [] el = "ver" -> IsVerTok(t)
      [] el = "tick" -> t = BackTick
      [] OTHER -> LowerWord(t) = el

\* the rest pat of a pattern tried at token i with the captures caps made so far:
\* end = 0 when it does not match, else the index after the match
RECURSIVE MatchAt(_, _, _, _)
MatchAt(toks, i, pat, caps) ==
    IF pat = <<>> THEN [end |-> i, caps |-> caps]
    ELSE IF i > Len(toks) \/ ~Accepts(Head(pat), toks[i]) THEN [end |-> 0, caps |-> caps]
    ELSE MatchAt(toks,
                 IF Head(pat) = "ws" THEN SkipSpace(toks, i) ELSE i + 1,
                 Tail(pat),
                 IF Head(pat) \in {"pkg", "ver"} THEN Append(caps, toks[i]) ELSE caps)

\* the bullet pattern without its lookbehind
NoLookbehind(toks, i) == TRUE

\* the lookbehind (?<=\* ) of line 123
AfterBullet(toks, i) == i >= 3 /\ toks[i - 2] = "*" /\ toks[i - 1] = " "

\* matchAll: the matches from left to right, each search resuming after the
\* last match; behind tells whether the pattern carries the lookbehind
RECURSIVE AllMatches(_, _, _, _)
AllMatches(toks, i, pat, behind) ==
    IF i > Len(toks) THEN <<>>
    ELSE LET m == IF behind /\ ~AfterBullet(toks, i) THEN [end |-> 0, caps |-> <<>>]
                  ELSE MatchAt(toks, i, pat, <<>>)
         IN  IF m.end = 0 THEN AllMatches(toks, i + 1, pat, behind)
             ELSE <<[name |-> m.caps[1], from |-> m.caps[2], to |-> m.caps[3]]>>
                    \o AllMatches(toks, m.end, pat, behind)

\* String.prototype.match of a pattern without the g flag: the leftmost match
FirstMatch(toks, pat) ==
    LET all == AllMatches(toks, 1, pat, FALSE) IN
    IF all = <<>> THEN <<>> ELSE <<all[1]>>

\* Array.from(new Set(xs)): first occurrences, in order
RECURSIVE Dedup(_)
Dedup(xs) ==
    IF xs = <<>> THEN <<>>
    ELSE LET r == Dedup(SubSeq(xs, 1, Len(xs) - 1))
             x == xs[Len(xs)]
         IN  IF \E k \in 1..Len(r) : r[k] = x THEN r ELSE Append(r, x)

extractPackages(prTitle, prBody) ==
    LET t == IF prTitle.def THEN FirstMatch(prTitle.s, BumpPattern) ELSE <<>>
        b == IF Truthy(prBody)
             THEN AllMatches(prBody.s, 1, BulletPattern, TRUE)
                    \o AllMatches(prBody.s, 1, UpdatesPattern, FALSE)
             ELSE <<>>
        upgrades == t \o b
    IN  [packages |-> Dedup([k \in 1..Len(upgrades) |-> upgrades[k].name]),
         upgrades |-> upgrades]

-----------------------------------------------------------------------------
(* Content generator: the reply handling of lines 215-298.  A JSON value   *)
(* read as a string is [def, s]; one read as a list is [arr, items], each  *)
(* item [str, s].                                                          *)

NoList == [arr |-> FALSE, items |-> <<>>]
List(xs) == [arr |-> TRUE, items |-> [k \in 1..Len(xs) |-> [str |-> TRUE, s |-> xs[k]]]]

Marker == <<"[","d","e","p","e","n","d","a","b","o","t">>
Prefix == <<"[","D","e","p","e","n","d","a","b","o","t","]"," ">>

RECURSIVE SelectStrings(_)
\* x.filter(s => typeof s === 'string' && s.trim()), or [] for what is no array
SelectStrings(v) ==
    IF ~v.arr \/ v.items = <<>> THEN <<>>
    ELSE LET h == Head(v.items)
             r == SelectStrings([arr |-> TRUE, items |-> Tail(v.items)])
         IN  IF h.str /\ Trim(h.s) # <<>> THEN <<h.s>> \o r ELSE r

\* the prefix rule of lines 249-251 applied whatever the title starts with
EnsurePrefixAlways(title) == Prefix \o title

\* lines 249-251
EnsurePrefix(title) ==
    IF StartsWith(ToLowerCase(title), Marker) THEN title ELSE Prefix \o title

\* normalizeModelJson (lines 239-253); obj is an object here (see Generate)
normalizeModelJson(obj) ==
    LET t == Trim(OrEmpty(obj.title))
        t2 == IF t = <<>> THEN <<"Dependency upgrades QA validation">> ELSE t
    IN  [title |-> EnsurePrefix(t2),
         description |-> Trim(OrEmpty(obj.description)),
         acceptance_criteria |-> SelectStrings(obj.acceptance_criteria),
         definition_of_done |-> SelectStrings(obj.definition_of_done),
         labels |-> SelectStrings(obj.labels)]

LowerHeader(t) ==
    CASE t \in {"Summary:", "SUMMARY:"} -> "summary:"
      [] t = "Acceptance Criteria:" -> "acceptance criteria:"
      [] t = "Definition of Done:" -> "definition of done:"
      [] t = "Labels:" -> "labels:"
      [] t = "Label:" -> "label:"
      [] t = "References:" -> "references:"
      [] OTHER -> LowerChar(t)

HeaderIs(line, hs) == line # <<>> /\ LowerHeader(Head(line)) \in hs

\* line.replace(/^[-*]\s*/, '').trim()
StripBullet(line) ==
    Trim(IF line # <<>> /\ Head(line) \in {"-", "*"} THEN TrimStart(Tail(line)) ELSE line)

\* split(/[,\s]+/).map(trim).filter(Boolean): the tokens that are no separator
RECURSIVE SplitLabels(_)
SplitLabels(rest) ==
    IF rest = <<>> THEN <<>>
    ELSE IF IsSpace(Head(rest)) \/ Head(rest) = "," THEN SplitLabels(Tail(rest))
    ELSE <<<<Head(rest)>>>> \o SplitLabels(Tail(rest))

\* the line added to the description as trimmed for the tests, not as it came
AppendTrimmed(desc, raw) == desc \o (IF desc # <<>> THEN <<"\n">> ELSE <<>>) \o Trim(raw)

\* line 288: result.description += (result.description ? '\n' : '') + raw
AppendLine(desc, raw) == desc \o (IF desc # <<>> THEN <<"\n">> ELSE <<>>) \o raw

\* one turn of the loop of lines 261-289; st = [section, result]
CoerceLine(st, raw) ==
    LET line == Trim(raw)
        r == st.result
    IN  IF HeaderIs(line, {"summary:"})
        THEN [st EXCEPT !.result.title = Trim(TrimStart(Tail(line)))]
        ELSE IF HeaderIs(line, {"acceptance criteria:"}) THEN [st EXCEPT !.section = "ac"]
        ELSE IF HeaderIs(line, {"definition of done:"}) THEN [st EXCEPT !.section = "dod"]
        ELSE IF HeaderIs(line, {"labels:", "label:"})
        THEN [st EXCEPT !.result.labels = r.labels \o SplitLabels(Tail(line))]
        ELSE IF Len(line) = 1 /\ LowerHeader(line[1]) = "references:"
        THEN [st EXCEPT !.section = "desc"]
        ELSE IF st.section = "ac" /\ line # <<>>
        THEN IF StripBullet(line) # <<>>
             THEN [st EXCEPT !.result.acceptance_criteria = Append(r.acceptance_criteria, StripBullet(line))]
             ELSE st
        ELSE IF st.section = "dod" /\ line # <<>>
        THEN IF StripBullet(line) # <<>>
             THEN [st EXCEPT !.result.definition_of_done = Append(r.definition_of_done, StripBullet(line))]
             ELSE st
        ELSE IF line # <<>>
        THEN [st EXCEPT !.result.description = AppendLine(r.description, raw)]
        ELSE st

RECURSIVE CoerceLines(_, _)
CoerceLines(st, lines) ==
    IF lines = <<>> THEN st ELSE CoerceLines(CoerceLine(st, Head(lines)), Tail(lines))

\* upgrades.map(u => u.name).slice(0, 3).join(', ')
RECURSIVE JoinNames(_)
JoinNames(ups) ==
    IF ups = <<>> THEN <<>>
    ELSE IF Len(ups) = 1 THEN <<ups[1].name>>
    ELSE <<ups[1].name, ", ">> \o JoinNames(Tail(ups))

\* coerceFreeTextToJson (lines 256-298): text is the list of its lines
coerceFreeTextToJson(text, ctx) ==
    LET st == CoerceLines([section |-> "desc",
                           result |-> [title |-> <<>>, description |-> <<>>,
                                       acceptance_criteria |-> <<>>,
                                       definition_of_done |-> <<>>, labels |-> <<>>]], text)
        r == st.result
        upgrades == extractPackages(ctx.prTitle, ctx.prBody).upgrades
        names == JoinNames(SubSeq(upgrades, 1, IF Len(upgrades) < 3 THEN Len(upgrades) ELSE 3))
        top == IF names # <<>> THEN names
               ELSE IF Truthy(ctx.prTitle) THEN ctx.prTitle.s
               ELSE <<"Dependency upgrades">>
        title == IF r.title # <<>> THEN r.title
                 ELSE <<"Regression risk after dependency upgrades (">> \o top
                        \o (IF Len(upgrades) > 3 THEN <<", ...">> ELSE <<>>) \o <<")">>
    IN  [title |-> Str(title), description |-> Str(r.description),
         acceptance_criteria |-> List(r.acceptance_criteria),
         definition_of_done |-> List(r.definition_of_done),
         labels |-> List(r.labels)]

\* the reply handling without the check of lines 216-221: missing or empty
\* content is coerced like prose
ParseReplyNoContentCheck(reply, ctx) ==
    IF reply.kind = "array" THEN [ok |-> FALSE, err |-> "TypeError"]
    ELSE IF reply.json = "object" THEN [ok |-> TRUE, content |-> normalizeModelJson(reply.obj)]
    ELSE [ok |-> TRUE, content |-> normalizeModelJson(coerceFreeTextToJson(reply.lines, ctx))]

\* lines 215-236, given the completion request's reply: the content or a throw.
\* reply = [kind, lines, json, obj]: kind tells what choices[0].message.content is,
\* json what /\{[\s\S]*\}/ and JSON.parse make of it
ParseReply(reply, ctx) ==
    IF reply.kind \in {"missing", "empty"} THEN [ok |-> FALSE, err |-> "no_content_from_models_api"]
    ELSE IF reply.kind # "string" THEN [ok |-> FALSE, err |-> "TypeError"]
    ELSE IF reply.json = "object" THEN [ok |-> TRUE, content |-> normalizeModelJson(reply.obj)]
    ELSE [ok |-> TRUE, content |-> normalizeModelJson(coerceFreeTextToJson(reply.lines, ctx))]

-----------------------------------------------------------------------------
(* Issue fields (lines 136-142 and 426-454) *)

\* the characters of a package-name token
Chars(t) ==
    CASE t = "@babel/core" -> <<"@","b","a","b","e","l","/","c","o","r","e">>
      [] OTHER -> <<t>>

\* [a-z0-9_.-], for one character or one lower-case word token
IsLabelChar(c) ==
    c \in {"a","b","c","d","e","i","l","n","o","p","r","s","t","x","y","_",".","-",
           "lodash", "axios", "qa", "deps", "dependabot", "4.17.20", "4.17.21", "1.0.0", "1.1.0"}

RECURSIVE Squeeze(_)
\* replace(/-+/g, '-')
Squeeze(s) ==
    IF Len(s) < 2 THEN s
    ELSE IF s[1] = "-" /\ s[2] = "-" THEN Squeeze(Tail(s))
    ELSE <<s[1]>> \o Squeeze(Tail(s))

\* the label left as it came
Unsanitized(s) == s

\* sanitizeLabel (lines 136-142); the slice to 200 characters never cuts a label
\* of the model
sanitizeLabel(s) ==
    LET low == ToLowerCase(s)
        dashed == [k \in 1..Len(low) |-> IF IsSpace(low[k]) \/ ~IsLabelChar(low[k]) THEN "-" ELSE low[k]]
    IN  Squeeze(dashed)

\* (JIRA_DEFAULT_LABELS || '').split(',').map(trim).filter(Boolean)
RECURSIVE SplitComma(_, _)
SplitComma(s, cur) ==
    IF s = <<>> THEN (IF Trim(cur) # <<>> THEN <<Trim(cur)>> ELSE <<>>)
    ELSE IF Head(s) = ","
         THEN (IF Trim(cur) # <<>> THEN <<Trim(cur)>> ELSE <<>>) \o SplitComma(Tail(s), <<>>)
         ELSE SplitComma(Tail(s), Append(cur, Head(s)))

\* lines 426-429
Labels(e, packages, g) ==
    LET defaults == SplitComma(OrEmpty(e.JIRA_DEFAULT_LABELS), <<>>)
        parsedPkgLabels == [k \in 1..Len(packages) |-> sanitizeLabel(Chars(packages[k]))]
        modelLabels == [k \in 1..Len(g.labels) |-> sanitizeLabel(g.labels[k])]
    IN  Dedup(<<<<"dependabot">>>> \o defaults \o parsedPkgLabels \o modelLabels)

\* items.map(i => `- ${i}`).join('\n')
RECURSIVE Bullets(_)
Bullets(items) ==
    IF items = <<>> THEN <<>>
    ELSE <<"- ">> \o Head(items) \o (IF Len(items) > 1 THEN <<"\n">> ELSE <<>>) \o Bullets(Tail(items))

\* Number(v) for the story-point value: "nan" when it is no finite number
NumberOf(v) ==
    CASE v = <<"3">> -> "3"
      [] v = <<"0.5">> -> "0.5"
      [] v = <<" ">> -> "0"
      [] OTHER -> "nan"

\* the story-point rule without the test of the field identifier
StoryPointsNoIdCheck(e) ==
    IF OrEmpty(e.JIRA_STORY_POINTS_VALUE) # <<>>
          /\ NumberOf(e.JIRA_STORY_POINTS_VALUE.s) # "nan"
    THEN NumberOf(e.JIRA_STORY_POINTS_VALUE.s)
    ELSE "none"

\* lines 450-452: the number stored under the story-point field identifier, or
\* "none" when nothing is stored (both variables default to '', lines 31-32)
StoryPoints(e) ==
    IF Truthy(e.JIRA_STORY_POINTS_FIELD_ID) /\ OrEmpty(e.JIRA_STORY_POINTS_VALUE) # <<>>
          /\ NumberOf(e.JIRA_STORY_POINTS_VALUE.s) # "nan"
    THEN NumberOf(e.JIRA_STORY_POINTS_VALUE.s)
    ELSE "none"

\* lines 431-454: the fields object posted to /issue; sp is the entry under the
\* story-point field identifier, a name none of the five fixed entries has
Fields(e, packages, g) ==
    LET prUrl == IF e.PR_HTML_URL.def THEN e.PR_HTML_URL.s ELSE <<"undefined">>
        prTitle == IF e.PR_TITLE.def THEN e.PR_TITLE.s ELSE <<"undefined">>
        extras == <<"\n\n*Acceptance Criteria*\n">> \o Bullets(g.acceptance_criteria)
                    \o <<"\n\n*Definition of Done*\n">> \o Bullets(g.definition_of_done)
                    \o <<"\nPR: ">> \o prUrl \o <<"\n">>
    IN  [project |-> OrEmpty(e.JIRA_PROJECT_KEY),
         issuetype |-> IF Truthy(e.JIRA_ISSUE_TYPE) THEN e.JIRA_ISSUE_TYPE.s ELSE <<"Bug">>,
         summary |-> IF g.title # <<>> THEN g.title ELSE Prefix \o prTitle,
         description |-> <<g.description, extras>>,
         labels |-> Labels(e, packages, g),
         sp |-> StoryPoints(e)]

\* line 453: the warning for a configured value that is no finite number
StoryPointsIgnored(e) ==
    /\ Truthy(e.JIRA_STORY_POINTS_FIELD_ID) /\ OrEmpty(e.JIRA_STORY_POINTS_VALUE) # <<>>
    /\ NumberOf(e.JIRA_STORY_POINTS_VALUE.s) = "nan"

-----------------------------------------------------------------------------
(* What the outside hands the run *)

\* the result of httpJson (lines 56-81): resolved with a 2xx status, rejected with the
\* status of the response, or rejected by the request's error event (status 0 stands
\* for no status), which a timeout raises too (line 77)
Pending == [st |-> "pending", status |-> 0]
Ok == [st |-> "ok", status |-> 200]
Failures == {[st |-> "http", status |-> 400], [st |-> "http", status |-> 401],
             [st |-> "error", status |-> 0], [st |-> "timeout", status |-> 0]}
Results == {Ok} \cup Failures

NoIssue == [found |-> FALSE, key |-> ""]
NoContent == [title |-> <<>>, description |-> <<>>, acceptance_criteria |-> <<>>,
              definition_of_done |-> <<>>, labels |-> <<>>]
NoFields == [project |-> <<>>, issuetype |-> <<>>, summary |-> <<>>, description |-> <<>>,
             labels |-> <<>>, sp |-> "none"]
NoObj == [title |-> Undef, description |-> Undef, acceptance_criteria |-> NoList,
          definition_of_done |-> NoList, labels |-> NoList]

\* replies of the completion endpoint
Reply(kind, lines, json, obj) == [kind |-> kind, lines |-> lines, json |-> json, obj |-> obj]
NoReply == Reply("none", <<>>, "none", NoObj)
Replies ==
    { Reply("missing", <<>>, "none", NoObj),
      Reply("empty", <<>>, "none", NoObj),
      Reply("array", <<>>, "none", NoObj),
      Reply("string", << <<"{...}">> >>, "object",
            [title |-> Str(<<"R","i","s","k">>), description |-> Str(<<"Check the upgrade">>),
             acceptance_criteria |-> List(<< <<"Build passes">> >>),
             definition_of_done |-> NoList,
             labels |-> List(<< <<"qa">>, <<"D","e","p","s"," "," ","X","!">> >>)]),
      Reply("string", << <<"{...}">> >>, "object", NoObj),
      Reply("string", << <<"{", "oops">> >>, "invalid", NoObj),
      Reply("string", << <<"Summary:", " ", "R","i","s","k">>, <<"Upgrade notes">>,
                         <<"Acceptance Criteria:">>, <<"-", " ", "Build passes">>,
                         <<"Labels:", " ", "qa", ",", "deps">> >>, "none", NoObj),
      Reply("string", << <<"Sorry, no JSON">> >>, "none", NoObj) }

\* the issue the tracker's search returns for the PR URL: the newest one holding it
SearchHit == IF tickets # <<>> THEN [found |-> TRUE, key |-> tickets[Len(tickets)]] ELSE NoIssue

\* the key the tracker gives the next issue it creates
NextKey == "OPS-" \o ToString(42 + Len(tickets))

-----------------------------------------------------------------------------
(* Environments *)

BaseEnv ==
    [JIRA_EX_BASE |-> Undef, JIRA_CLOUD_ID |-> Undef,
     JIRA_API_BASE |-> Str(<<"https://", "acme.atlassian.net">>), JIRA_MODE |-> Undef,
     JIRA_EMAIL |-> Str(<<"bot@acme.io">>), JIRA_API_TOKEN |-> Str(<<"secret">>),
     JIRA_PROJECT_KEY |-> Str(<<"OPS">>), JIRA_ISSUE_TYPE |-> Undef,
     JIRA_DEFAULT_LABELS |-> Undef, JIRA_STORY_POINTS_FIELD_ID |-> Undef,
     JIRA_STORY_POINTS_VALUE |-> Undef, JIRA_BROWSE_BASE |-> Undef,
     PR_TITLE |-> Str(<<"Bump", " ", "lodash", " ", "from", " ", "4.17.20", " ", "to", " ", "4.17.21">>),
     PR_BODY |-> Undef,
     PR_HTML_URL |-> Str(<<"https://", "github.com", "/acme/app/pull/7">>),
     GH_MODELS_TOKEN |-> Str(<<"ghm">>), GITHUB_TOKEN |-> Undef,
     USE_LLM |-> Undef, PREFERRED_MODEL |-> Undef,
     GITHUB_OUTPUT |-> Str(<<"/tmp/out">>)]

Opt(v) == {Undef, Str(<<v>>)}

\* required credentials
CredEnvs ==
    {[BaseEnv EXCEPT !.JIRA_EMAIL = a, !.JIRA_API_TOKEN = b, !.JIRA_PROJECT_KEY = c] :
        a \in {Undef, Str(<<"bot@acme.io">>)}, b \in {Str(<<>>), Str(<<"secret">>)},
        c \in Opt("OPS")}

ModeValues == {Undef, Str(<<>>), Str(<<"s","i","t","e">>), Str(<<"S","I","T","E">>),
               Str(<<"e","x">>), Str(<<"E","x">>), Str(<<"p","r","o","x","y">>)}
ExBases == {Undef, Str(<<"https://", "api.atlassian.com">>), Str(<<"api.atlassian.com">>)}
ApiBases == {Str(<<>>), Str(<<"https://", "acme.atlassian.net">>), Str(<<"acme.atlassian.net">>)}

\* gateway configuration
ModeEnvs ==
    {[BaseEnv EXCEPT !.JIRA_MODE = m, !.JIRA_EX_BASE = x, !.JIRA_CLOUD_ID = c, !.JIRA_API_BASE = a] :
        m \in ModeValues, x \in ExBases, c \in Opt("cloud-1"), a \in ApiBases}

UrlValues == {Undef, Str(<<>>), Str(<<" ", "\t">>), Str(<<"https://", "github.com", "/acme/app/pull/7">>)}

\* pull request, language model and output configuration
RunEnvs ==
    {[BaseEnv EXCEPT !.USE_LLM = u, !.GH_MODELS_TOKEN = g, !.GITHUB_TOKEN = t,
                     !.PR_HTML_URL = p, !.GITHUB_OUTPUT = o, !.JIRA_BROWSE_BASE = b] :
        u \in {Undef, Str(<<"true">>), Str(<<"false">>)}, g \in Opt("ghm"), t \in Opt("ght"),
        p \in UrlValues, o \in Opt("/tmp/out"),
        b \in {Undef, Str(<<"https://", "acme.atlassian.net", "/">>)}}

\* story-point configuration
StoryIds == {Undef, Str(<<>>), Str(<<"customfield_10016">>)}
StoryValues == {Undef, Str(<<>>), Str(<<"3">>), Str(<<"0.5">>), Str(<<" ">>), Str(<<"abc">>)}
StoryEnvs ==
    {[BaseEnv EXCEPT !.JIRA_STORY_POINTS_FIELD_ID = i, !.JIRA_STORY_POINTS_VALUE = v] :
        i \in StoryIds, v \in StoryValues}

\* label configuration and pull-request text
LabelConfigs == {Undef, Str(<<"qa", ",", " ", "Team A", ",", ",", "dependabot", ",", "lodash">>)}
LabelBody ==
    <<"*", " ", "lodash", " ", "from", " ", "4.17.20", " ", "to", " ", "4.17.21", "\n",
      "updates", " ", BackTick, "@babel/core", BackTick, " ", "from", " ", "1.0.0", " ", "to", " ", "1.1.0", "\n">>
LabelEnvs ==
    {[BaseEnv EXCEPT !.JIRA_DEFAULT_LABELS = d, !.PR_TITLE = t, !.PR_BODY = b] :
        d \in LabelConfigs, t \in {Undef, BaseEnv.PR_TITLE}, b \in {Undef, Str(LabelBody)}}

InEnvs(e) ==
    e \in CredEnvs \/ e \in ModeEnvs \/ e \in RunEnvs \/ e \in StoryEnvs \/ e \in LabelEnvs

-----------------------------------------------------------------------------
(* The run (lines 358-475) *)

Init ==
    /\ InEnvs(env)
    /\ tickets \in {<<>>, <<"OPS-7">>}
    /\ pc = "start"
    /\ reqs = <<>>
    /\ mode = "unset"
    /\ existing = NoIssue
    /\ completion = NoReply
    /\ gen = NoContent
    /\ fields = NoFields
    /\ outputs = <<>>
    /\ console = <<>>
    /\ exitCode = -1
    /\ runs = 1
    /\ warnedRuns = 0
    /\ input = <<>>
    /\ result = <<>>

\* a request handed to httpJson, its promise not yet settled
Request(svc, method, path, body) ==
    [svc |-> svc, method |-> method, path |-> path, body |-> body, res |-> Pending]

JiraGet(p) == Request("jira", "GET", JiraPath(jiraHostAndPathBuilder(env), p), <<>>)
JiraPost(p, body) == Request("jira", "POST", JiraPath(jiraHostAndPathBuilder(env), p), body)

\* the request in flight left unsettled: main goes on without awaiting it
NotAwaited(res) == reqs

\* the promise of the request in flight settles with res
Settle(res) == [reqs EXCEPT ![Len(reqs)].res = res]

\* setOutput (lines 343-350) on st = [outputs, console]
setOutput(st, name, value) ==
    IF ~Truthy(env.GITHUB_OUTPUT)
    THEN [st EXCEPT !.console = Append(@, "GITHUB_OUTPUT not set; cannot export step outputs.")]
    ELSE [st EXCEPT !.outputs = Append(@, [name |-> name, value |-> value])]

\* the report with the jira_url output left out
ReportKeyOnly(con, key, line) ==
    LET a == setOutput([outputs |-> outputs, console |-> con], "jira_key", <<key>>)
    IN  [a EXCEPT !.console = Append(@, line)]

\* lines 395-398 and 458-461: both outputs, then the console line
Report(con, key, line) ==
    LET a == setOutput([outputs |-> outputs, console |-> con], "jira_key", <<key>>)
        b == setOutput(a, "jira_url", buildBrowseUrl(env, key))
    IN  [b EXCEPT !.console = Append(@, line)]

\* the handler without its process.exit(1): the process ends with status 0
FailExitZero(con) ==
    /\ console' = Append(con, "Failed to create Jira issue.")
    /\ exitCode' = 0
    /\ pc' = "done"

\* the handler of lines 462-474, after the lines con were logged
Fail(con) ==
    /\ console' = Append(con, "Failed to create Jira issue.")
    /\ exitCode' = 1
    /\ pc' = "done"

\* the first search body of line 317 and the fallback body of line 326
SearchBody(shape) == <<shape, Jql(env, env.PR_HTML_URL.s)>>

\* lines 395-399: the existing issue is reported and main returns
ReportExisting(rq, ex, con) ==
    LET r == Report(con, ex.key, "Found existing Jira issue") IN
    /\ outputs' = r.outputs
    /\ console' = r.console
    /\ exitCode' = 0
    /\ pc' = "done"
    /\ reqs' = rq

\* lines 402-424 and 146-203: generation, up to the completion request
Generate(rq, con) ==
    IF USE_LLM(env) # <<"true">>
    THEN Fail(con) /\ reqs' = rq /\ UNCHANGED outputs
    ELSE IF ~Truthy(MODELS_TOKEN(env))
    THEN /\ Fail(Append(con, "LLM request failed for preferred model"))
         /\ reqs' = rq /\ UNCHANGED outputs
    ELSE /\ reqs' = Append(rq, Request("models", "POST", <<"/inference/chat/completions">>,
                                       <<PREFERRED_MODEL(env)>>))
         /\ pc' = "completion"
         /\ console' = con
         /\ UNCHANGED <<outputs, exitCode>>

\* main going on to generation although the search found an issue
ProceedNoReturn(rq, ex, con) ==
    /\ existing' = ex
    /\ Generate(rq, con)

\* lines 394-424 run with the search settled as ex and the console at con, up to
\* the completion request; rq is the request log
Proceed(rq, ex, con) ==
    /\ existing' = ex
    /\ IF ex.found THEN ReportExisting(rq, ex, con) ELSE Generate(rq, con)

\* the checks of lines 361-366 with the language-model toggle rejected there too
ConfigMissingOrLlmOff(e) ==
    \/ ~Truthy(e.JIRA_EMAIL) \/ ~Truthy(e.JIRA_API_TOKEN) \/ ~Truthy(e.JIRA_PROJECT_KEY)
    \/ USE_LLM(e) # <<"true">>
    \/ ~Truthy(MODELS_TOKEN(e))

\* the checks of lines 361-366 without the one of the model token
ConfigMissingNoTokenCheck(e) ==
    \/ ~Truthy(e.JIRA_EMAIL) \/ ~Truthy(e.JIRA_API_TOKEN) \/ ~Truthy(e.JIRA_PROJECT_KEY)

\* lines 361-366: a required value is missing
ConfigMissing(e) ==
    \/ ~Truthy(e.JIRA_EMAIL) \/ ~Truthy(e.JIRA_API_TOKEN) \/ ~Truthy(e.JIRA_PROJECT_KEY)
    \/ (USE_LLM(e) = <<"true">> /\ ~Truthy(MODELS_TOKEN(e)))

\* lines 359-373: validation, endpoint resolution and the identity request
Validate ==
    /\ pc = "start"
    /\ IF ConfigMissing(env)
       THEN Fail(console) /\ UNCHANGED <<mode, reqs>>
       ELSE /\ mode' = pickMode(env)
            /\ IF ~jiraHostAndPathBuilder(env).ok
               THEN Fail(console) /\ UNCHANGED reqs
               ELSE /\ reqs' = Append(reqs, JiraGet(<<"/myself">>))
                    /\ pc' = "auth"
                    /\ UNCHANGED <<console, exitCode>>
    /\ UNCHANGED <<env, tickets, existing, completion, gen, fields, outputs, runs, warnedRuns, input, result>>

\* the test of the URL without its trim
HasUrlUntrimmed(e) == Truthy(e.PR_HTML_URL)

\* line 388 (and 312): PR_HTML_URL && PR_HTML_URL.trim()
HasUrl(e) == Truthy(e.PR_HTML_URL) /\ Trim(e.PR_HTML_URL.s) # <<>>

\* lines 373-393: the identity check answered; the search request when there is a URL
AuthResponse(res) ==
    /\ pc = "auth"
    /\ IF res.st # "ok"
       THEN /\ Fail(Append(console, "Jira auth/scope check failed."))
            /\ reqs' = Settle(res)
            /\ UNCHANGED <<existing, outputs>>
       ELSE IF HasUrl(env)
       THEN /\ reqs' = Append(Settle(res), JiraPost(<<"/search/jql">>, SearchBody("jql")))
            /\ pc' = "search1"
            /\ UNCHANGED <<existing, outputs, console, exitCode>>
       ELSE Proceed(Settle(res), NoIssue, console)
    /\ UNCHANGED <<env, tickets, mode, completion, gen, fields, runs, warnedRuns, input, result>>

\* a retry after any failure of the first attempt
RetryableAlways(res) == TRUE

\* line 323: the first attempt is tried again after a 400 only
Retryable(res) == res.status = 400

\* the search failure ending the run
SearchThrewFatal(rq) ==
    /\ Fail(console)
    /\ reqs' = rq
    /\ UNCHANGED <<existing, outputs>>

\* the search failure swallowed without the warning
SearchThrewSilent(rq) == Proceed(rq, NoIssue, console)

\* lines 389-392: jiraSearchByText threw; main logs the warning and goes on
\* with existing = null
SearchThrew(rq) ==
    Proceed(rq, NoIssue, Append(console, "Jira search failed; continuing to create."))

\* lines 319-334: the first search answered
Search1Response(res) ==
    /\ pc = "search1"
    /\ IF res.st = "ok" THEN Proceed(Settle(res), SearchHit, console)
       ELSE IF Retryable(res)
       THEN /\ reqs' = Append(Settle(res), JiraPost(<<"/search/jql">>, SearchBody("query")))
            /\ pc' = "search2"
            /\ UNCHANGED <<existing, outputs, console, exitCode>>
       ELSE SearchThrew(Settle(res))
    /\ UNCHANGED <<env, tickets, mode, completion, gen, fields, runs, warnedRuns, input, result>>

\* lines 327-332: the fallback search answered
Search2Response(res) ==
    /\ pc = "search2"
    /\ IF res.st = "ok" THEN Proceed(Settle(res), SearchHit, console)
       ELSE SearchThrew(Settle(res))
    /\ UNCHANGED <<env, tickets, mode, completion, gen, fields, runs, warnedRuns, input, result>>

\* the ctx argument of lines 406-412
Ctx == [prTitle |-> Str(OrEmpty(env.PR_TITLE)), prBody |-> Str(OrEmpty(env.PR_BODY))]

\* line 384
Packages == extractPackages(env.PR_TITLE, Str(OrEmpty(env.PR_BODY))).packages

\* lines 194-236 and 413-456: the completion answered; on an error the catalog
\* request, on a usable reply the issue fields and the creation request
CompletionResponse(res, reply) ==
    /\ pc = "completion"
    /\ IF res.st # "ok"
       THEN /\ reqs' = Append(Settle(res), Request("models", "GET", <<"/catalog/models">>, <<>>))
            /\ pc' = "catalog"
            /\ UNCHANGED <<completion, gen, fields, console, exitCode>>
       ELSE LET g == ParseReply(reply, Ctx) IN
            /\ completion' = reply
            /\ IF ~g.ok
               THEN /\ Fail(Append(console, "LLM request failed for preferred model"))
                    /\ reqs' = Settle(res)
                    /\ UNCHANGED <<gen, fields>>
               ELSE /\ gen' = g.content
                    /\ fields' = Fields(env, Packages, g.content)
                    /\ console' = IF StoryPointsIgnored(env)
                                  THEN Append(console, "Ignored non-numeric Story Points")
                                  ELSE console
                    /\ reqs' = Append(Settle(res),
                                      JiraPost(<<"/issue">>, <<Fields(env, Packages, g.content)>>))
                    /\ pc' = "create"
                    /\ UNCHANGED exitCode
    /\ UNCHANGED <<env, tickets, mode, existing, outputs, runs, warnedRuns, input, result>>

\* lines 206-212 and 413-420: the catalog answered either way; the completion's
\* error is thrown again and main aborts
CatalogResponse(res) ==
    /\ pc = "catalog"
    /\ reqs' = Settle(res)
    /\ Fail((IF res.st = "ok" THEN Append(console, "Catalog models visible to token:") ELSE console)
            \o <<"LLM request failed for preferred model">>)
    /\ UNCHANGED <<env, tickets, mode, existing, completion, gen, fields, outputs, runs, warnedRuns, input, result>>

\* a rejected creation request issued once more before giving up
CreateRejectedRetryOnce(res) ==
    IF Len(SelectSeq(reqs, LAMBDA r : r.svc = "jira" /\ r.method = "POST" /\ Last(r.path) = "/issue")) < 2
    THEN /\ reqs' = Append(Settle(res), [Last(reqs) EXCEPT !.res = Pending])
         /\ UNCHANGED <<pc, console, exitCode, tickets, outputs>>
    ELSE /\ reqs' = Settle(res)
         /\ console' = Append(console, "Failed to create Jira issue.")
         /\ exitCode' = 1
         /\ pc' = "done"
         /\ UNCHANGED <<tickets, outputs>>

\* the creation request issued again after a rejection
CreateRejectedRetry(res) ==
    /\ reqs' = Append(Settle(res), [Last(reqs) EXCEPT !.res = Pending])
    /\ UNCHANGED <<pc, console, exitCode, tickets, outputs>>

\* lines 456 and 462-474: jiraCreateIssue threw; the run ends
CreateRejected(res) ==
    /\ reqs' = Settle(res)
    /\ Fail(console)
    /\ UNCHANGED <<tickets, outputs>>

\* lines 456-461 and 338-341: the creation answered; the tracker holds the new
\* issue exactly when it answered 2xx
CreateResponse(res) ==
    /\ pc = "create"
    /\ IF res.st = "ok"
       THEN LET r == Report(console, NextKey, "Created Jira issue") IN
            /\ reqs' = Settle(res)
            /\ tickets' = Append(tickets, NextKey)
            /\ outputs' = r.outputs
            /\ console' = r.console
            /\ exitCode' = 0
            /\ pc' = "done"
       ELSE CreateRejected(res)
    /\ UNCHANGED <<env, mode, existing, completion, gen, fields, runs, warnedRuns, input, result>>

\* the workflow is triggered again for the same pull request once the run has
\* ended: a fresh process, the tracker being the only thing that lasts
NewRun ==
    /\ pc = "done"
    /\ runs < MaxRuns
    /\ runs' = runs + 1
    /\ warnedRuns' = warnedRuns +
           (IF \E k \in 1..Len(console) : console[k] = "Jira search failed; continuing to create."
            THEN 1 ELSE 0)
    /\ pc' = "start"
    /\ reqs' = <<>>
    /\ mode' = "unset"
    /\ existing' = NoIssue
    /\ completion' = NoReply
    /\ gen' = NoContent
    /\ fields' = NoFields
    /\ outputs' = <<>>
    /\ console' = <<>>
    /\ exitCode' = -1
    /\ UNCHANGED <<env, tickets, input, result>>

Next ==
    \/ Validate
    \/ \E res \in Results : AuthResponse(res)
    \/ \E res \in Results : Search1Response(res)
    \/ \E res \in Results : Search2Response(res)
    \/ \E res \in Results, reply \in Replies : CompletionResponse(res, reply)
    \/ \E res \in Results : CatalogResponse(res)
    \/ \E res \in Results : CreateResponse(res)

\* one run of the script
Spec == Init /\ [][Next]_vars

\* one run whose steps are all taken in the end: main is started, and every
\* request in flight ends in a response, an error or the timeout of line 77
SpecLive == Spec /\ WF_vars(Next)

\* repeated runs for one pull request, with the configuration of a working setup
InitRuns == Init /\ env \in {BaseEnv, [BaseEnv EXCEPT !.GITHUB_OUTPUT = Undef]}

NextRuns == Next \/ NewRun

SpecRuns == InitRuns /\ [][NextRuns]_vars

-----------------------------------------------------------------------------
(* The pure functions of the script exercised on their own: the arguments   *)
(* are drawn at the start, a step applies the function, and no run goes on. *)

NoRun ==
    /\ env = BaseEnv /\ tickets = <<>> /\ pc = "none" /\ reqs = <<>> /\ mode = "unset"
    /\ existing = NoIssue /\ completion = NoReply /\ gen = NoContent /\ fields = NoFields
    /\ outputs = <<>> /\ console = <<>> /\ exitCode = -1 /\ runs = 0 /\ warnedRuns = 0

run == <<env, tickets, pc, reqs, mode, existing, completion, gen, fields, outputs, console,
         exitCode, runs, warnedRuns>>

\* the sequences of at most n members of S, concatenated
RECURSIVE Concats(_, _)
Concats(S, n) ==
    IF n = 0 THEN {<<>>}
    ELSE LET shorter == Concats(S, n - 1) IN shorter \cup {p \o t : p \in S, t \in shorter}

\* titles a reply may carry: with the marker in two letter cases, with a part of
\* it, with blanks around
TitleParts ==
    { <<"[","D","e","p","e","n","d","a","b","o","t">>,
      <<"[","D","E","P","E","N","D","A","B","O","T">>,
      <<"[","d","e","p","e","n","d","a","b","o","t","]">>,
      <<"[","d","e","p">>, <<"]">>, <<" ">>, <<"x">>, <<"B","u","m","p">> }

Titles == {Undef} \cup {Str(t) : t \in Concats(TitleParts, MaxTitleParts)}

\* the parsed reply object with the title v
WithTitle(v) == [NoObj EXCEPT !.title = v]

InitTitle ==
    /\ NoRun
    /\ input \in {[title |-> v] : v \in Titles}
    /\ result = [n |-> 0, once |-> <<>>, title |-> <<>>]

\* normalizeModelJson applied to the reply
Normalize ==
    /\ result.n = 0
    /\ result' = [n |-> 1, once |-> <<>>, title |-> normalizeModelJson(WithTitle(input.title)).title]
    /\ UNCHANGED <<run, input>>

\* normalizeModelJson applied to what it returned
NormalizeAgain ==
    /\ result.n = 1
    /\ result' = [n |-> 2, once |-> result.title,
                  title |-> normalizeModelJson(WithTitle(Str(result.title))).title]
    /\ UNCHANGED <<run, input>>

NextTitle == Normalize \/ NormalizeAgain

SpecTitle == InitTitle /\ [][NextTitle]_vars

\* lines a completion without JSON is made of: the headers, items, text with and
\* without blanks around it, blank lines
TextLines ==
    { <<"Summary:", " ", "R","i","s","k">>, <<"Upgrade notes">>, <<" ", "Indented note", " ">>,
      <<>>, <<" ">>, <<"Acceptance Criteria:">>, <<"-", " ", "Build passes">>,
      <<"References:">>, <<"Labels:", " ", "qa">>, <<"{oops}">> }

RECURSIVE Texts(_)
Texts(n) ==
    IF n = 0 THEN {<<>>}
    ELSE LET shorter == Texts(n - 1)
         IN  shorter \cup {Append(t, l) : t \in {u \in shorter : Len(u) = n - 1}, l \in TextLines}

\* the reply whose content is the text of these lines: '' is one empty line, and
\* braces that hold no JSON make JSON.parse throw
TextReply(lines) ==
    Reply(IF lines = << <<>> >> THEN "empty" ELSE "string", lines,
          IF \E k \in 1..Len(lines) : lines[k] = <<"{oops}">> THEN "invalid" ELSE "none", NoObj)

CtxValues ==
    {[prTitle |-> Str(t), prBody |-> Str(<<>>)] :
        t \in {BaseEnv.PR_TITLE.s, <<"Update deps">>, <<>>}}

InitCoerce ==
    /\ NoRun
    /\ input \in {[reply |-> TextReply(t), ctx |-> c] : t \in Texts(MaxLines) \ {<<>>}, c \in CtxValues}
    /\ result = [n |-> 0, ok |-> FALSE, content |-> NoContent]

\* lines 215-236 applied to the reply
Coerce ==
    /\ result.n = 0
    /\ LET g == ParseReply(input.reply, input.ctx) IN
        result' = [n |-> 1, ok |-> g.ok, content |-> IF g.ok THEN g.content ELSE NoContent]
    /\ UNCHANGED <<run, input>>

NextCoerce == Coerce

SpecCoerce == InitCoerce /\ [][NextCoerce]_vars

\* pull-request titles: unset, empty, a bump in two letter cases, no bump
PrTitles ==
    { Undef, Str(<<>>),
      Str(<<"Bump", " ", "lodash", " ", "from", " ", "4.17.20", " ", "to", " ", "4.17.21">>),
      Str(<<"BUMP", " ", "axios", " ", "from", " ", "1.0.0", " ", "to", " ", "1.1.0">>),
      Str(<<"Bump", " ", "the", " ", "deps", " ", "group">>) }

\* lines of a pull-request body: bullets with a star and with a dash, grouped
\* updates in two letter cases, plain text
BodyLines ==
    { <<"*", " ", "lodash", " ", "from", " ", "4.17.20", " ", "to", " ", "4.17.21">>,
      <<"-", " ", "lodash", " ", "from", " ", "4.17.20", " ", "to", " ", "4.17.21">>,
      <<"Updates", " ", BackTick, "axios", BackTick, " ", "from", " ", "1.0.0", " ", "to", " ", "1.1.0">>,
      <<"Updates", " ", BackTick, "lodash", BackTick, " ", "from", " ", "4.17.20", " ", "to", " ", "4.17.21">>,
      <<"updates", " ", BackTick, "@babel/core", BackTick, " ", "from", " ", "1.0.0", " ", "to", " ", "1.1.0">>,
      <<"Release", " ", "notes">> }

RECURSIVE Bodies(_)
Bodies(n) ==
    IF n = 0 THEN {<<>>}
    ELSE LET shorter == Bodies(n - 1)
         IN  shorter \cup {Append(b, l) : b \in {u \in shorter : Len(u) = n - 1}, l \in BodyLines}

\* the body text: its lines, each ended by a newline
RECURSIVE BodyText(_)
BodyText(lines) ==
    IF lines = <<>> THEN <<>> ELSE Head(lines) \o <<"\n">> \o BodyText(Tail(lines))

InitExtract ==
    /\ NoRun
    /\ input \in {[title |-> t, body |-> b] : t \in PrTitles, b \in Bodies(MaxBodyLines)}
    /\ result = [n |-> 0, packages |-> <<>>, upgrades |-> <<>>]

\* extractPackages(PR_TITLE, PR_BODY) as main calls it at line 384
Extract ==
    /\ result.n = 0
    /\ LET x == extractPackages(input.title, Str(BodyText(input.body))) IN
        result' = [n |-> 1, packages |-> x.packages, upgrades |-> x.upgrades]
    /\ UNCHANGED <<run, input>>

NextExtract == Extract

SpecExtract == InitExtract /\ [][NextExtract]_vars

-----------------------------------------------------------------------------
(* Vocabulary of the properties *)

Done == pc = "done"

IsIdentity(r) == r.svc = "jira" /\ r.method = "GET" /\ Last(r.path) = "/myself"
IsSearch(r) == r.svc = "jira" /\ r.method = "POST" /\ Last(r.path) = "/search/jql"
IsCreate(r) == r.svc = "jira" /\ r.method = "POST" /\ Last(r.path) = "/issue"
IsCompletion(r) == r.svc = "models" /\ r.method = "POST"
IsCatalog(r) == r.svc = "models" /\ r.method = "GET"

Settled(r) == r.res.st # "pending"
Succeeded(r) == r.res.st = "ok"
Rejected(r) == Settled(r) /\ ~Succeeded(r)

\* the positions of the requests of one kind
Where(Is(_)) == {i \in 1..Len(reqs) : Is(reqs[i])}

Logged(line) == \E k \in 1..Len(console) : console[k] = line
Times(line) == Cardinality({k \in 1..Len(console) : console[k] = line})

SearchWarned == Logged("Jira search failed; continuing to create.")
FoundReported == Times("Found existing Jira issue")
CreatedReported == Times("Created Jira issue")

Created == \E i \in Where(IsCreate) : Succeeded(reqs[i])

\* the tracker's issues for the URL as they were when the run started
TicketsAtStart == IF Created THEN SubSeq(tickets, 1, Len(tickets) - 1) ELSE tickets

\* the step outputs that make one ticket reference
Reference(key) ==
    << [name |-> "jira_key", value |-> <<key>>],
       [name |-> "jira_url", value |-> buildBrowseUrl(env, key)] >>

\* the key of the ticket this run found or created
RunKey == IF existing.found THEN existing.key ELSE Last(tickets)

-----------------------------------------------------------------------------
(* C1 *)

\* C1 as stated: a run that has ended either exited 0 having written exactly one
\* jira_key and one jira_url output, or exited non-zero having written none.
C1_AsStated ==
    Done => \/ /\ exitCode = 0
               /\ Len(outputs) = 2
               /\ outputs[1].name = "jira_key" /\ outputs[2].name = "jira_url"
            \/ exitCode # 0 /\ outputs = <<>>

\* C1, amended: a run that has ended either exited 0 having reported exactly one
\* ticket reference, the found or the created one, on the console, and having
\* written its jira_key and jira_url outputs when GITHUB_OUTPUT is set and no
\* output when it is not; or it exited non-zero having reported and written
\* none.  A run that has not ended has reported and written nothing.
C1_OneReference ==
    /\ ~Done => outputs = <<>> /\ FoundReported + CreatedReported = 0
    /\ Done =>
        \/ /\ exitCode = 0
           /\ FoundReported + CreatedReported = 1
           /\ (FoundReported = 1) = existing.found
           /\ (CreatedReported = 1) = Created
           /\ outputs = IF Truthy(env.GITHUB_OUTPUT) THEN Reference(RunKey) ELSE <<>>
        \/ /\ exitCode # 0
           /\ FoundReported + CreatedReported = 0
           /\ outputs = <<>>

\* a run that created a ticket and wrote both outputs
C1_Witness ==
    Done /\ exitCode = 0 /\ Created /\ Len(outputs) = 2 /\ outputs = Reference(Last(tickets))

-----------------------------------------------------------------------------
(* C2 *)

GenerationFailed ==
    \/ \E i \in Where(IsCompletion) : Rejected(reqs[i])
    \/ completion.kind \in {"missing", "empty", "array"}

\* C2: when generation fails (the completion request is rejected, errors or times
\* out, or its content is missing, empty or no string) no creation request is ever
\* issued and the run, once ended, has exited 1 after logging the generation
\* failure; and a creation request carries the fields built from the content a
\* successful generation returned.
C2_NoCreateWithoutContent ==
    /\ GenerationFailed =>
          /\ Where(IsCreate) = {}
          /\ gen = NoContent
          /\ pc \in {"catalog", "done"}
          /\ Done => exitCode = 1 /\ Logged("LLM request failed for preferred model")
    /\ \A i \in Where(IsCreate) :
          /\ \E j \in Where(IsCompletion) : j < i /\ Succeeded(reqs[j])
          /\ completion.kind = "string"
          /\ gen # NoContent /\ gen.title # <<>>
          /\ reqs[i].body = <<fields>>
          /\ fields.summary = gen.title
          /\ fields.description[1] = gen.description

\* a run aborted on an empty completion
C2_Witness ==
    Done /\ exitCode = 1 /\ completion.kind = "empty" /\ Where(IsCreate) = {}
         /\ \E j \in Where(IsCompletion) : Succeeded(reqs[j])

-----------------------------------------------------------------------------
(* C3 *)

\* C3: when the duplicate search returns an existing ticket, the run reports that
\* ticket's key and browse URL (on the console, and as outputs when GITHUB_OUTPUT
\* is set), exits 0, and issues neither a model request nor a creation request;
\* and a search answered while the tracker holds a ticket for the URL is a
\* search that returns it.
C3_ExistingReported ==
    /\ existing.found =>
          /\ Done /\ exitCode = 0
          /\ existing.key = Last(tickets)
          /\ FoundReported = 1
          /\ Truthy(env.GITHUB_OUTPUT) => outputs = Reference(existing.key)
          /\ Where(IsCompletion) = {} /\ Where(IsCatalog) = {} /\ Where(IsCreate) = {}
          /\ IsSearch(Last(reqs)) /\ Succeeded(Last(reqs))
    /\ (reqs # <<>> /\ IsSearch(Last(reqs)) /\ Succeeded(Last(reqs)) /\ tickets # <<>>)
          => existing.found

\* a run that found OPS-7 and wrote its key and URL
C3_Witness ==
    existing.found /\ existing.key = "OPS-7" /\ Done /\ Len(outputs) = 2
        /\ outputs[2].value = <<"https://", "acme.atlassian.net", "/browse/", "OPS-7">>

-----------------------------------------------------------------------------
(* C4 *)

\* the search ended in a failure: its last attempt was rejected, and was not a
\* first attempt rejected with 400, which is tried again
SearchGaveUp ==
    \E i \in Where(IsSearch) :
        /\ Rejected(reqs[i])
        /\ (\E j \in Where(IsSearch) : j < i) \/ reqs[i].res.status # 400

LlmEnabled == env.USE_LLM \in {Undef, Str(<<"true">>)}

\* C4: a failed duplicate search never ends the run.  After a rejected search
\* attempt the run retries or goes on as when nothing was found: the warning is
\* logged, no ticket counts as found, the completion request is issued (the
\* language model being enabled), and when generation and creation succeed the
\* ticket is created and the run exits 0.
C4_SearchFailureNotFatal ==
    /\ (\E i \in Where(IsSearch) : Rejected(reqs[i])) =>
          pc \in {"search2", "completion", "catalog", "create", "done"}
    /\ SearchGaveUp =>
          /\ SearchWarned /\ ~existing.found
          /\ LlmEnabled => Where(IsCompletion) # {}
          /\ Created => Done /\ exitCode = 0 /\ CreatedReported = 1
    /\ SearchWarned => SearchGaveUp

\* a run whose search timed out and that created the ticket all the same
C4_Witness ==
    /\ Done /\ exitCode = 0 /\ Created /\ SearchWarned
    /\ \E i \in Where(IsSearch) : reqs[i].res.st = "timeout"

-----------------------------------------------------------------------------
(* C5 *)

\* C5 as stated: whatever runs there were, the tracker holds at most one ticket
\* for the pull-request URL.
C5_AsStated == Len(tickets) <= 1

\* runs, this one included, that have logged the search warning
WarnedSoFar == warnedRuns + (IF SearchWarned THEN 1 ELSE 0)

\* C5, amended: provided the tracker's search returns a ticket holding the URL
\* whenever there is one, a run that starts when such a ticket exists issues a
\* creation request only if its duplicate search failed; so after any sequence
\* of non-overlapping runs for one URL the tracker holds at most one ticket for
\* it plus one for every run whose duplicate search failed.
C5_OneTicketPerFailedSearch ==
    /\ Len(tickets) <= 1 + WarnedSoFar
    /\ (Where(IsCreate) # {} /\ TicketsAtStart # <<>>) => SearchWarned
    /\ (TicketsAtStart # <<>> /\ Done /\ ~SearchWarned /\ Where(IsSearch) # {}) =>
          existing.found /\ tickets = TicketsAtStart

\* a second run that found the ticket the first run created
C5_Witness ==
    /\ runs = 2 /\ Done /\ existing.found /\ existing.key = "OPS-42"
    /\ tickets = <<"OPS-42">> /\ Where(IsCreate) = {}

-----------------------------------------------------------------------------
(* C6 *)

\* names of the two modes, in the letter cases of the model's environments
NamesSite(v) == v.def /\ v.s \in {<<"s","i","t","e">>, <<"S","I","T","E">>}
NamesEx(v) == v.def /\ v.s \in {<<"e","x">>, <<"E","x">>}

Present(v) == v # Undef /\ v # Str(<<>>)

\* a configuration error as the claim lists them
ConfigError ==
    \/ ~Present(env.JIRA_EMAIL) \/ ~Present(env.JIRA_API_TOKEN) \/ ~Present(env.JIRA_PROJECT_KEY)
    \/ LlmEnabled /\ ~Present(env.GH_MODELS_TOKEN) /\ ~Present(env.GITHUB_TOKEN)
    \/ /\ ~NamesSite(env.JIRA_MODE) /\ ~NamesEx(env.JIRA_MODE)
       /\ ~(Present(env.JIRA_EX_BASE) /\ Present(env.JIRA_CLOUD_ID))
       /\ ~Present(env.JIRA_API_BASE)

\* C6: with a configuration error (a required credential or the project key
\* missing, the model token missing while the language model is enabled, or no
\* gateway mode resolvable) the run issues no outbound request at all and ends
\* with exit status 1.
C6_ConfigErrorBeforeNetwork ==
    ConfigError => /\ reqs = <<>>
                   /\ pc \in {"start", "done"}
                   /\ Done => exitCode = 1

\* a run without a model token, ended before any request
C6_Witness ==
    /\ Done /\ exitCode = 1 /\ reqs = <<>>
    /\ Present(env.JIRA_EMAIL) /\ Present(env.JIRA_API_TOKEN) /\ Present(env.JIRA_PROJECT_KEY)
    /\ LlmEnabled /\ ~Present(env.GH_MODELS_TOKEN) /\ ~Present(env.GITHUB_TOKEN)

-----------------------------------------------------------------------------
(* C7 *)

-----------------------------------------------------------------------------
(* C8 *)

FirstSearch == CHOOSE i \in Where(IsSearch) : \A j \in Where(IsSearch) : i <= j
SecondSearch == CHOOSE i \in Where(IsSearch) : i # FirstSearch

\* what the search answers for the tracker as it was during the search
HitAtStart ==
    IF TicketsAtStart # <<>> THEN [found |-> TRUE, key |-> Last(TicketsAtStart)] ELSE NoIssue

\* C8: a run issues at most two search requests, the first with the jql body;
\* there is a second, with the query body, exactly when the first was rejected
\* with status 400.  A search attempt that succeeds gives the search result; a
\* first attempt that fails otherwise, or a second attempt that fails, makes the
\* search fail (the caller logs its warning and has no ticket).
C8_SearchRetry ==
    Where(IsSearch) # {} =>
        /\ Cardinality(Where(IsSearch)) <= 2
        /\ reqs[FirstSearch].body[1] = "jql"
        /\ (Cardinality(Where(IsSearch)) = 2) =
              (reqs[FirstSearch].res.st = "http" /\ reqs[FirstSearch].res.status = 400)
        /\ Cardinality(Where(IsSearch)) = 2 =>
              /\ SecondSearch = FirstSearch + 1
              /\ reqs[SecondSearch].body[1] = "query"
              /\ reqs[SecondSearch].body[2] = reqs[FirstSearch].body[2]
        /\ \A i \in Where(IsSearch) :
              /\ Succeeded(reqs[i]) => existing = HitAtStart /\ ~SearchWarned
              /\ (Rejected(reqs[i]) /\ (i # FirstSearch \/ reqs[i].res.status # 400)) =>
                    existing = NoIssue /\ SearchWarned

\* a first search rejected with 400 and a second one that found the ticket
C8_Witness ==
    /\ Cardinality(Where(IsSearch)) = 2
    /\ reqs[FirstSearch].res.status = 400
    /\ Succeeded(reqs[SecondSearch]) /\ existing.found /\ Done /\ exitCode = 0

-----------------------------------------------------------------------------
(* C9 *)

\* C9: a creation request is the last request of its run, so there is at most
\* one and none follows it; before it come, in this order, the identity check,
\* which succeeded, the search attempts if any, which found no ticket, and the
\* completion request, which succeeded and gave content.
C9_CreateIsLast ==
    \A i \in Where(IsCreate) :
        /\ i = Len(reqs)
        /\ i >= 3
        /\ IsIdentity(reqs[1]) /\ Succeeded(reqs[1])
        /\ \A j \in 2..(i - 2) : IsSearch(reqs[j]) /\ Settled(reqs[j])
        /\ ~existing.found
        /\ IsCompletion(reqs[i - 1]) /\ Succeeded(reqs[i - 1])
        /\ gen # NoContent
        /\ Settled(reqs[i]) => Done

\* a creation request was rejected and the run has ended: one creation request,
\* after identity check, two searches and completion
C9_Witness ==
    /\ Done /\ Len(reqs) = 5 /\ IsCreate(reqs[5]) /\ Rejected(reqs[5])
    /\ Cardinality(Where(IsCreate)) = 1

-----------------------------------------------------------------------------
(* C10 *)

\* C10: a run that has ended exited 0 exactly when it found or created a ticket,
\* and 1 otherwise; so after a configuration error, a rejected identity check, a
\* failed generation or a rejected creation it exited 1.  A rejected identity
\* check is the run's only request, and after a rejected creation request no
\* ticket reference is reported or written.
C10_ExitStatus ==
    /\ Done => /\ exitCode \in {0, 1}
               /\ (exitCode = 0) = (existing.found \/ Created)
               /\ (ConfigError \/ GenerationFailed) => exitCode = 1
    /\ ~Done => exitCode = -1
    /\ (reqs # <<>> /\ Rejected(reqs[1])) => Done /\ exitCode = 1 /\ Len(reqs) = 1
    /\ \A i \in Where(IsCreate) :
          Rejected(reqs[i]) =>
              /\ Done /\ exitCode = 1
              /\ outputs = <<>> /\ FoundReported + CreatedReported = 0
              /\ tickets = TicketsAtStart

\* the identity check was rejected with 401 and the run ended with status 1
C10_Witness ==
    /\ Done /\ exitCode = 1 /\ Len(reqs) = 1 /\ IsIdentity(reqs[1])
    /\ reqs[1].res = [st |-> "http", status |-> 401]
    /\ Logged("Jira auth/scope check failed.")

-----------------------------------------------------------------------------
(* C11 *)

\* the configured values that Number() turns into a finite number: whitespace
\* alone counts as 0
ParsesFinite(v) == v.def /\ v.s \in {<<"3">>, <<"0.5">>, <<" ">>}

StoryPointsConfigured == Present(env.JIRA_STORY_POINTS_FIELD_ID) /\ Present(env.JIRA_STORY_POINTS_VALUE)

\* C11: a creation request carries the story-point field exactly when a field
\* identifier and a value are configured and the value parses as a finite
\* number.  A configured value that does not is ignored with a warning and
\* never ends the run: usable content always leads to the creation request,
\* issued without the field, and when the tracker accepts it the run exits 0.
C11_StoryPoints ==
    /\ \A i \in Where(IsCreate) :
          /\ (reqs[i].body[1].sp # "none") =
                (StoryPointsConfigured /\ ParsesFinite(env.JIRA_STORY_POINTS_VALUE))
          /\ Logged("Ignored non-numeric Story Points") =
                (StoryPointsConfigured /\ ~ParsesFinite(env.JIRA_STORY_POINTS_VALUE))
    /\ Where(IsCreate) = {} => ~Logged("Ignored non-numeric Story Points")
    /\ (gen # NoContent) = (Where(IsCreate) # {})
    /\ Created => Done /\ exitCode = 0

\* a run with the story-point value abc that created the ticket without the field
C11_Witness ==
    /\ env.JIRA_STORY_POINTS_FIELD_ID = Str(<<"customfield_10016">>)
    /\ env.JIRA_STORY_POINTS_VALUE = Str(<<"abc">>)
    /\ Done /\ exitCode = 0 /\ Created
    /\ Last(reqs).body[1].sp = "none" /\ Logged("Ignored non-numeric Story Points")

-----------------------------------------------------------------------------
(* C12 *)

InFlight == {i \in 1..Len(reqs) : ~Settled(reqs[i])}

Waiting == pc \in {"auth", "search1", "search2", "completion", "catalog", "create"}

\* C12: the requests of a run are strictly sequential.  At most one request is
\* in flight, it is the last one issued, and the run is suspended on it: every
\* earlier request has ended in a response, an error or a timeout.  The second
\* search attempt directly follows the rejected first one, and the catalog
\* request directly follows the rejected completion request.
C12_Sequential ==
    /\ Cardinality(InFlight) <= 1
    /\ \A i \in InFlight : i = Len(reqs)
    /\ Waiting = (InFlight # {})
    /\ Cardinality(Where(IsSearch)) = 2 =>
          SecondSearch = FirstSearch + 1 /\ Rejected(reqs[FirstSearch])
    /\ \A i \in Where(IsCatalog) :
          i > 1 /\ IsCompletion(reqs[i - 1]) /\ Rejected(reqs[i - 1])

\* the catalog request in flight after two search attempts and a completion
\* request that timed out
C12_Witness ==
    /\ pc = "catalog" /\ Len(reqs) = 5 /\ InFlight = {5}
    /\ Cardinality(Where(IsSearch)) = 2
    /\ reqs[4].res.st = "timeout"

-----------------------------------------------------------------------------
(* C13 *)

UpperMarker == <<"[","D","E","P","E","N","D","A","B","O","T">>

\* t starts with the marker, each letter in either case
CarriesMarker(t) ==
    Len(t) >= Len(Marker) /\ \A k \in 1..Len(Marker) : t[k] \in {Marker[k], UpperMarker[k]}

\* C13: the normalized title is never empty and starts with the marker in some
\* letter case; a title that carries the marker already, in any letter case, is
\* returned as it is, trimmed, and any other one behind the fixed prefix; and
\* normalizing the normalized title again returns it unchanged.
C13_TitleIdempotent ==
    /\ result.n >= 1 =>
          /\ result.title # <<>> /\ CarriesMarker(result.title)
          /\ CarriesMarker(Trim(OrEmpty(input.title))) => result.title = Trim(input.title.s)
          /\ ~CarriesMarker(Trim(OrEmpty(input.title))) =>
                /\ SubSeq(result.title, 1, Len(Prefix)) = Prefix
                /\ Trim(OrEmpty(input.title)) # <<>> =>
                      SubSeq(result.title, Len(Prefix) + 1, Len(result.title)) = Trim(input.title.s)
    /\ result.n = 2 => result.title = result.once

\* a title with the marker in capitals, normalized twice and never prefixed
C13_Witness ==
    /\ result.n = 2
    /\ input.title = Str(<<"[","D","E","P","E","N","D","A","B","O","T", "]">>)
    /\ result.title = input.title.s

-----------------------------------------------------------------------------
(* C14 *)

\* the lines of a text that are neither a section header nor an item of the
\* acceptance or done section, as they came; sec is the section at the first
RECURSIVE Unrecognized(_, _)
Unrecognized(lines, sec) ==
    IF lines = <<>> THEN <<>>
    ELSE LET raw == Head(lines)
             first == IF Trim(raw) = <<>> THEN "" ELSE Head(Trim(raw))
             rest == Tail(lines)
         IN  IF first \in {"Summary:", "Labels:"} THEN Unrecognized(rest, sec)
             ELSE IF first = "Acceptance Criteria:" THEN Unrecognized(rest, "ac")
             ELSE IF first = "Definition of Done:" THEN Unrecognized(rest, "dod")
             ELSE IF Trim(raw) = <<"References:">> THEN Unrecognized(rest, "desc")
             ELSE IF sec # "desc" /\ Trim(raw) # <<>> THEN Unrecognized(rest, sec)
             ELSE <<raw>> \o Unrecognized(rest, sec)

\* whether the lines ls occur in d one after the other, each as it is
RECURSIVE OccurInOrder(_, _)
OccurInOrder(d, ls) ==
    IF ls = <<>> THEN TRUE
    ELSE LET l == Head(ls)
             at == {k \in 1..(Len(d) - Len(l) + 1) : SubSeq(d, k, k + Len(l) - 1) = l}
         IN  IF l = <<>> THEN OccurInOrder(d, Tail(ls))
             ELSE /\ at # {}
                  /\ LET k == CHOOSE k \in at : \A j \in at : k <= j
                     IN  OccurInOrder(SubSeq(d, k + Len(l), Len(d)), Tail(ls))

\* lines joined by newlines
RECURSIVE JoinLines(_)
JoinLines(ls) ==
    IF ls = <<>> THEN <<>>
    ELSE IF Len(ls) = 1 THEN ls[1]
    ELSE ls[1] \o <<"\n">> \o JoinLines(Tail(ls))

NonBlank(ls) == SelectSeq(ls, LAMBDA l : Trim(l) # <<>>)

\* C14 as stated: for a non-empty completion without JSON, generation returns
\* content whose title is not empty and whose description holds every line that
\* is no header and no section item, as it came and in the original order (a
\* blank line holds nothing that could be missing).
C14_AsStated ==
    (result.n = 1 /\ input.reply.kind = "string") =>
        /\ result.ok /\ result.content.title # <<>>
        /\ OccurInOrder(result.content.description,
                        NonBlank(Unrecognized(input.reply.lines, "desc")))

\* C14, amended: for a non-empty completion without JSON, generation returns
\* content whose title is not empty and whose description is the lines that are
\* no header, no section item and not blank, as they came, in the original
\* order and joined by newlines, with the white space at the very start and the
\* very end of the description removed.
C14_CoercedDescription ==
    (result.n = 1 /\ input.reply.kind = "string") =>
        /\ result.ok /\ result.content.title # <<>>
        /\ result.content.description =
              Trim(JoinLines(NonBlank(Unrecognized(input.reply.lines, "desc"))))

\* prose of three lines, the middle one a header: both others are the description
C14_Witness ==
    /\ result.n = 1 /\ result.ok
    /\ input.reply.lines = << <<"Upgrade notes">>, <<"Labels:", " ", "qa">>, <<"{oops}">> >>
    /\ result.content.description = <<"Upgrade notes", "\n", "{oops}">>
    /\ result.content.labels = << <<"qa">> >>

-----------------------------------------------------------------------------
(* C15 *)

\* what a line of the inputs holds: the pattern it matches and the package, read
\* off the line itself
BulletPackage(l) == IF l[1] = "*" /\ l[2] = " " /\ Len(l) = 11 THEN <<l[3]>> ELSE <<>>
UpdatesPackage(l) == IF l[1] \in {"Updates", "updates"} /\ Len(l) = 13 THEN <<l[4]>> ELSE <<>>
TitlePackage(t) ==
    IF t.def /\ Len(t.s) = 11 /\ t.s[1] \in {"Bump", "BUMP"} /\ t.s[5] = "from" THEN <<t.s[3]>> ELSE <<>>

RECURSIVE Flatten(_)
Flatten(ss) == IF ss = <<>> THEN <<>> ELSE Head(ss) \o Flatten(Tail(ss))

TitleNames == TitlePackage(input.title)
BulletNames == Flatten([k \in 1..Len(input.body) |-> BulletPackage(input.body[k])])
UpdatesNames == Flatten([k \in 1..Len(input.body) |-> UpdatesPackage(input.body[k])])

Range(q) == {q[k] : k \in 1..Len(q)}

UpgradeNames == [k \in 1..Len(result.upgrades) |-> result.upgrades[k].name]

\* the names lists hold one entry per distinct matched name, the upgrade list
\* one entry per match: of the title first, then of the bullets, then of the
\* grouped updates; without a match both are empty
ExtractedAsMatched ==
    /\ UpgradeNames = TitleNames \o BulletNames \o UpdatesNames
    /\ Range(result.packages) = Range(UpgradeNames)
    /\ Cardinality(Range(result.packages)) = Len(result.packages)

\* C15 as stated: extraction gives one name per distinct matched package and one
\* upgrade per match, in match order, and the upgrade list is longer than the
\* name collection only if some package was matched by more than one pattern.
C15_AsStated ==
    result.n = 1 =>
        /\ ExtractedAsMatched
        /\ Len(result.upgrades) > Len(result.packages) =>
              \/ Range(TitleNames) \cap Range(BulletNames) # {}
              \/ Range(TitleNames) \cap Range(UpdatesNames) # {}
              \/ Range(BulletNames) \cap Range(UpdatesNames) # {}

\* C15, amended: extraction gives one name per distinct matched package and one
\* upgrade per match, in match order, and the upgrade list is longer than the
\* name collection exactly when some package was matched more than once, by two
\* patterns or twice by the same one.
C15_OnePerMatch ==
    result.n = 1 =>
        /\ ExtractedAsMatched
        /\ (Len(result.upgrades) > Len(result.packages)) =
              (\E j, k \in 1..Len(UpgradeNames) : j # k /\ UpgradeNames[j] = UpgradeNames[k])

\* two grouped-update lines, a bullet between them: three upgrades in match
\* order, two names
C15_Witness ==
    /\ result.n = 1 /\ input.title = Undef
    /\ input.body = << <<"Updates", " ", BackTick, "axios", BackTick, " ", "from", " ", "1.0.0", " ", "to", " ", "1.1.0">>,
                       <<"*", " ", "lodash", " ", "from", " ", "4.17.20", " ", "to", " ", "4.17.21">>,
                       <<"Updates", " ", BackTick, "axios", BackTick, " ", "from", " ", "1.0.0", " ", "to", " ", "1.1.0">> >>
    /\ UpgradeNames = <<"lodash", "axios", "axios">>
    /\ result.packages = <<"lodash", "axios">>

-----------------------------------------------------------------------------
(* C16 *)

\* the package names the pull-request text of the environments holds, sanitized
PackageLabels ==
    (IF env.PR_TITLE = Undef THEN {} ELSE {<<"lodash">>})
    \cup (IF env.PR_BODY = Undef THEN {}
          ELSE {<<"lodash">>, <<"-","b","a","b","e","l","-","c","o","r","e">>})

\* the default labels the environments configure
DefaultLabels ==
    IF env.JIRA_DEFAULT_LABELS = Undef THEN {}
    ELSE {<<"qa">>, <<"Team A">>, <<"dependabot">>, <<"lodash">>}

\* the labels the replies propose, sanitized
ProposedLabels ==
    {IF gen.labels[k] = <<"D","e","p","s"," "," ","X","!">> THEN <<"d","e","p","s","-","x","-">>
     ELSE gen.labels[k] : k \in 1..Len(gen.labels)}

\* C16: the labels of a creation request hold the label dependabot and the
\* sanitized name of every package of the pull request, no label twice, and
\* nothing but dependabot, the configured default labels, the sanitized package
\* names and the sanitized labels the model proposed.
C16_Labels ==
    \A i \in Where(IsCreate) :
        LET labels == reqs[i].body[1].labels IN
        /\ <<"dependabot">> \in Range(labels)
        /\ PackageLabels \subseteq Range(labels)
        /\ Cardinality(Range(labels)) = Len(labels)
        /\ Range(labels) =
              {<<"dependabot">>} \cup DefaultLabels \cup PackageLabels \cup ProposedLabels

\* an issue created with all four kinds of label, lodash and qa coming twice
C16_Witness ==
    /\ Created /\ env.JIRA_DEFAULT_LABELS # Undef /\ env.PR_BODY # Undef
    /\ Last(reqs).body[1].labels =
          << <<"dependabot">>, <<"qa">>, <<"Team A">>, <<"lodash">>,
             <<"-","b","a","b","e","l","-","c","o","r","e">>, <<"d","e","p","s","-","x","-">> >>

-----------------------------------------------------------------------------
(* C17 *)

Count(Is(_)) == Cardinality(Where(Is))

\* at most one identity check, two search attempts, one completion request, one
\* catalog request and one creation request, the identity check first
RequestBounds ==
    /\ Count(IsIdentity) <= 1 /\ Count(IsSearch) <= 2 /\ Count(IsCompletion) <= 1
    /\ Count(IsCatalog) <= 1 /\ Count(IsCreate) <= 1
    /\ Count(IsIdentity) + Count(IsSearch) + Count(IsCompletion) + Count(IsCatalog)
          + Count(IsCreate) = Len(reqs)
    /\ \A i, j \in 1..Len(reqs) :
          (i < j /\ [reqs[i] EXCEPT !.res = Pending] = [reqs[j] EXCEPT !.res = Pending]) => FALSE
    /\ Done => InFlight = {}

\* C17: every request in flight ending in a response, an error or a timeout,
\* the run reaches its exit, and never makes more than one identity check, two
\* search attempts, one completion request, one catalog request and one
\* creation request, no request being made twice.
C17_Terminates == (<>Done) /\ []RequestBounds

\* a run that ended after the most requests there can be: identity check, two
\* search attempts, completion, and the catalog request or the creation
C17_Witness ==
    /\ Done /\ Len(reqs) = 5 /\ Count(IsSearch) = 2 /\ Count(IsCatalog) = 1
    /\ \E i \in 1..Len(reqs) : reqs[i].res.st = "timeout"

-----------------------------------------------------------------------------
(* C18 *)

\* the pull-request URL is absent, empty or white space only
BlankUrl == env.PR_HTML_URL \in {Undef, Str(<<>>), Str(<<" ", "\t">>)}

IdentityPassed == reqs # <<>> /\ Succeeded(reqs[1])

\* C18: with a blank pull-request URL no search request is ever issued, no
\* ticket counts as found and no search warning is logged: after the identity
\* check the run goes straight to generation (the completion request, the
\* language model being enabled) and on to creation, a ticket the tracker may
\* hold notwithstanding.  With any other URL the request after the identity
\* check is the search.
C18_BlankUrlNoSearch ==
    /\ BlankUrl =>
          /\ Where(IsSearch) = {} /\ ~existing.found /\ ~SearchWarned
          /\ (IdentityPassed /\ LlmEnabled) => Len(reqs) >= 2 /\ IsCompletion(reqs[2])
          /\ (IdentityPassed /\ ~LlmEnabled) => Done /\ exitCode = 1 /\ Len(reqs) = 1
          /\ Where(IsCreate) \subseteq {3}
          /\ gen # NoContent => Where(IsCreate) = {3}
    /\ (~BlankUrl /\ IdentityPassed) => Len(reqs) >= 2 /\ IsSearch(reqs[2])

\* a white-space URL: the run created a ticket without any search although the
\* tracker held one
C18_Witness ==
    /\ env.PR_HTML_URL = Str(<<" ", "\t">>) /\ TicketsAtStart = <<"OPS-7">>
    /\ Done /\ exitCode = 0 /\ Created /\ Len(reqs) = 3 /\ Where(IsSearch) = {}

-----------------------------------------------------------------------------
(* C19 *)

\* with the toggle off: no model request and no creation request; the identity
\* check is made; a run that has ended exited 0 having reported the ticket the
\* search found, or 1
ToggleOffOutcome ==
    /\ Where(IsCompletion) = {} /\ Where(IsCatalog) = {} /\ Where(IsCreate) = {}
    /\ (~ConfigError /\ pc # "start") => reqs # <<>> /\ IsIdentity(reqs[1])
    /\ Done => \/ exitCode = 0 /\ existing.found /\ FoundReported = 1
               \/ exitCode = 1 /\ ~existing.found /\ FoundReported = 0
    /\ (Where(IsSearch) # {} /\ Succeeded(reqs[Len(reqs)]) /\ IsSearch(reqs[Len(reqs)])
          /\ TicketsAtStart # <<>>) => Done /\ exitCode = 0

\* the run was turned down for the toggle: it passed the identity check and
\* ended with status 1
TurnedDown == Done /\ exitCode = 1 /\ IdentityPassed

SearchOver == Where(IsSearch) # {} /\ \A i \in Where(IsSearch) : Settled(reqs[i])

\* C19: with the language-model toggle off the run issues no model request and
\* no creation request, and it is turned down only after the identity check
\* and the duplicate-search step: the search attempts have all been answered
\* (with a blank URL the step issues none, and the identity check is the only
\* request).  The run exits 0 reporting the ticket when the search found one,
\* and 1 otherwise.
C19_ToggleOff ==
    ~LlmEnabled =>
        /\ ToggleOffOutcome
        /\ TurnedDown => IF BlankUrl THEN Len(reqs) = 1 ELSE SearchOver

\* the toggle off and the search finding nothing: the run ended with status 1
\* after identity check and search
C19_Witness ==
    /\ env.USE_LLM = Str(<<"false">>) /\ ~BlankUrl /\ TicketsAtStart = <<>>
    /\ Done /\ exitCode = 1 /\ Len(reqs) = 2 /\ IsSearch(reqs[2]) /\ Succeeded(reqs[2])

====
